---- MODULE Spec2Model ----
(***************************************************************************)
(* Order creation of the MyAutoKit API (src/main.py, create_order) over    *)
(* the product catalog and the order collection.                           *)
(*                                                                         *)
(* Money is a float in the source.  Here an amount is an integer number of *)
(* thousandths (mils) of a dollar, so 4 is 0.004 and 10 is 0.01; every     *)
(* amount of the model is an even number of mils, so no sum ever lies      *)
(* exactly half way between two hundredths, where the binary               *)
(* representation of a float would decide the result of round(x, 2).       *)
(*                                                                         *)
(* Python's None is the string NoneVal; a dictionary key that may be       *)
(* absent (a product's price) and the result of find_one are sequences of  *)
(* length 0 (absent, None) or 1.                                           *)
(***************************************************************************)
EXTENDS Integers, Sequences, FiniteSets, TLC

\* ---------------------------------------------------------------- bounds
\* Longest cart of request r1, longest cart of the request r2 that runs
\* beside it, and the number of catalog edits.
MaxItems == 2
MaxItemsOther == 1
MaxChanges == 1

Requests == {"r1", "r2"}

\* ------------------------------------------------------------ value sets
NoneVal == "None"

\* Identifiers that have a record in the product collection.
CatalogIds == {"p1", "p2"}
\* Strings bson.ObjectId accepts; "p0" is well-formed and has no record.
WellFormedIds == CatalogIds \cup {"p0"}
\* Any other string, such as "bad", makes ObjectId(...) raise.

\* Items a client sends: an OrderItem with its own title and price.
CartItems ==
  { [product_id |-> "p1",  title |-> "client", price |-> 998, quantity |-> 1, image |-> NoneVal],
    [product_id |-> "p2",  title |-> "client", price |-> 998, quantity |-> 2, image |-> NoneVal],
    [product_id |-> "bad", title |-> "client", price |-> 998, quantity |-> 1, image |-> NoneVal],
    [product_id |-> "p0",  title |-> "client", price |-> 998, quantity |-> 1, image |-> NoneVal] }

\* Items that fail the validation of the request body.
InvalidItems ==
  { [product_id |-> "p1",  title |-> "client", price |-> 998, quantity |-> 0, image |-> NoneVal] }

Shippings == {-4, 0, 4}

RECURSIVE SeqsUpTo(_, _)
SeqsUpTo(S, n) ==
  IF n = 0 THEN {<<>>}
  ELSE LET shorter == SeqsUpTo(S, n - 1)
       IN shorter \cup { Append(s, x) : s \in {t \in shorter : Len(t) = n - 1}, x \in S }

\* Request r1 carries any cart of valid items up to its bound, or one
\* invalid item, with any shipping.  Request r2 is an order for catalog
\* products that leaves shipping out (the default 0.0).
Carts(r) ==
  IF r = "r1"
  THEN SeqsUpTo(CartItems, MaxItems) \cup { <<e>> : e \in InvalidItems }
  ELSE SeqsUpTo({it \in CartItems : it.product_id \in CatalogIds}, MaxItemsOther)

\* The bodies of POST /api/orders.
OrderCreate(r) ==
  { [items |-> c, customer |-> "customer", shipping |-> s] :
      c \in Carts(r), s \in IF r = "r1" THEN Shippings ELSE {0} }

NoBody == [items |-> <<>>, customer |-> NoneVal, shipping |-> 0]

\* The product whose record is edited while orders are placed, and the
\* prices written to it; <<>> removes the key.
Editable == {"p1"}
NewPrices == {<<-2>>, <<4>>, <<>>}

\* ----------------------------------------------------------------- state
VARIABLES
  db,                \* TRUE iff the store handle `db` is not None
  catalog,           \* the product collection: CatalogIds -> document
  changes,           \* catalog writes so far
  orders,            \* the order collection, in insertion order
  pc,                \* per request: "new", "received", "lookup", "persist", "done"
  body,              \* per request: the OrderCreate body as sent
  idx,               \* per request: position of `it` in order.items
  subtotal,          \* per request: the local `subtotal`
  normalized_items,  \* per request: the local `normalized_items`
  reads,             \* per request: the documents find_one returned (history)
  lookups,           \* per request: find_one calls attempted (history)
  response           \* per request: the HTTP response

vars == <<db, catalog, changes, orders, pc, body, idx, subtotal,
          normalized_items, reads, lookups, response>>

locals == <<idx, subtotal, normalized_items>>

NoResponse == [status |-> 0, detail |-> <<>>, order_id |-> 0, total |-> 0]

HTTPException(code, text) == [status |-> code, detail |-> text, order_id |-> 0, total |-> 0]

\* ------------------------------------------------------------- functions
\* round(x, 2) on mils: the nearest multiple of 10, a tie going to the even
\* hundredth.
Round2(x) ==
  LET q == x \div 10
      r == x % 10
  IN IF r < 5 THEN 10 * q
     ELSE IF r > 5 THEN 10 * (q + 1)
     ELSE IF q % 2 = 0 THEN 10 * q ELSE 10 * (q + 1)

\* float(prod.get("price", 0.0))
PriceOf(prod) == IF prod.price = <<>> THEN 0 ELSE prod.price[1]

\* OrderItem without the ge=0 constraint on price.
OrderItemValid_NoPriceCheck(item) ==
  /\ item.title # NoneVal
  /\ item.quantity >= 1

\* The constraints of schemas.OrderItem.
OrderItemValid(item) ==
  /\ item.title # NoneVal
  /\ item.price >= 0
  /\ item.quantity >= 1

\* Order without the ge=0 constraint on shipping.
OrderValid_NoShippingCheck(doc) ==
  /\ \A k \in 1..Len(doc.items) : OrderItemValid(doc.items[k])
  /\ doc.subtotal >= 0
  /\ doc.total >= 0

\* The constraints of schemas.Order (its items are OrderItem instances).
OrderValid(doc) ==
  /\ \A k \in 1..Len(doc.items) : OrderItemValid(doc.items[k])
  /\ doc.subtotal >= 0
  /\ doc.shipping >= 0
  /\ doc.total >= 0

\* Request validation of the OrderCreate body, done before the handler runs.
OrderCreateValid(b) == \A k \in 1..Len(b.items) : OrderItemValid(b.items[k])

\* db["product"].find_one({"_id": ObjectId(id)}) when no call raises.
FindOne(id) == IF id \in DOMAIN catalog THEN <<catalog[id]>> ELSE <<>>

\* A snapshot that trusts the title and price the client sent.
Snapshot_FromClient(it, prod) ==
  [product_id |-> it.product_id,
   title      |-> it.title,
   price      |-> it.price,
   quantity   |-> it.quantity,
   image      |-> prod.image]

\* The dictionary appended to normalized_items for item `it` and document `prod`.
Snapshot(it, prod) ==
  [product_id |-> it.product_id,
   title      |-> prod.title,
   price      |-> PriceOf(prod),
   quantity   |-> it.quantity,
   image      |-> prod.image]

\* A line for a product already in the list is merged into that line.
AppendSnapshot_Merge(items, snap) ==
  IF \E k \in 1..Len(items) : items[k].product_id = snap.product_id
  THEN LET k == CHOOSE j \in 1..Len(items) : items[j].product_id = snap.product_id
       IN [items EXCEPT ![k].quantity = @ + snap.quantity]
  ELSE Append(items, snap)

\* normalized_items.append(...)
AppendSnapshot(items, snap) == Append(items, snap)

\* shipping = float(order.shipping or 0.0)
ShippingOf(b) == IF b.shipping = 0 THEN 0 ELSE b.shipping

\* total = round(subtotal + shipping, 2), from the running (unrounded) subtotal.
TotalOf(sub, shipping) == Round2(sub + shipping)

RECURSIVE LineSum(_, _)
\* Sum of price(k) * quantity over the first n lines of an order.
LineSum(items, n) ==
  IF n = 0 THEN 0 ELSE LineSum(items, n - 1) + items[n].price * items[n].quantity

\* An order priced again from the catalog when it is written.
OrderDoc_RepricedAtWrite(r) ==
  LET repriced == [k \in 1..Len(normalized_items[r]) |->
                     [normalized_items[r][k] EXCEPT
                        !.price = PriceOf(catalog[normalized_items[r][k].product_id])]]
      sub == LineSum(repriced, Len(repriced))
  IN [items    |-> normalized_items[r],
      customer |-> body[r].customer,
      subtotal |-> Round2(sub),
      shipping |-> ShippingOf(body[r]),
      total    |-> TotalOf(sub, ShippingOf(body[r])),
      status   |-> "pending"]

\* The Order document built from the locals of a request.
OrderDoc(r) ==
  [items    |-> normalized_items[r],
   customer |-> body[r].customer,
   subtotal |-> Round2(subtotal[r]),
   shipping |-> ShippingOf(body[r]),
   total    |-> TotalOf(subtotal[r], ShippingOf(body[r])),
   status   |-> "pending"]

\* ------------------------------------------------------------------ init
\* The catalog holds two of the seeded products (89.0 and 99.0 dollars).
Init ==
  /\ db \in BOOLEAN
  /\ catalog = [p \in CatalogIds |->
                  IF p = "p1"
                  THEN [title |-> "Neon Drive LED Poster", price |-> <<89000>>, image |-> "img1"]
                  ELSE [title |-> "Carbon Wave LED Poster", price |-> <<99000>>, image |-> "img2"]]
  /\ changes = 0
  /\ orders = <<>>
  /\ pc = [r \in Requests |-> "new"]
  /\ body = [r \in Requests |-> NoBody]
  /\ idx = [r \in Requests |-> 0]
  /\ subtotal = [r \in Requests |-> 0]
  /\ normalized_items = [r \in Requests |-> <<>>]
  /\ reads = [r \in Requests |-> <<>>]
  /\ lookups = [r \in Requests |-> 0]
  /\ response = [r \in Requests |-> NoResponse]

\* --------------------------------------------------------------- actions
\* The handler returns or raises: its locals are gone, the response is sent.
\* The body as sent and the history variables stay.
Finish(r, resp) ==
  /\ pc' = [pc EXCEPT ![r] = "done"]
  /\ response' = [response EXCEPT ![r] = resp]
  /\ idx' = [idx EXCEPT ![r] = 0]
  /\ subtotal' = [subtotal EXCEPT ![r] = 0]
  /\ normalized_items' = [normalized_items EXCEPT ![r] = <<>>]
  /\ UNCHANGED body

\* The request arrives: the framework parses its body.
Receive(r) ==
  /\ pc[r] = "new"
  /\ \E b \in OrderCreate(r) : body' = [body EXCEPT ![r] = b]
  /\ pc' = [pc EXCEPT ![r] = "received"]
  /\ UNCHANGED <<db, catalog, changes, orders, locals, reads, lookups, response>>

\* The body fails validation: 422 before create_order is entered.
RejectInvalid(r) ==
  /\ pc[r] = "received"
  /\ ~OrderCreateValid(body[r])
  /\ Finish(r, HTTPException(422, <<"validation">>))
  /\ UNCHANGED <<db, catalog, changes, orders, reads, lookups>>

\* An emptiness check that comes after a first use of the store handle.
RejectEmpty_StoreFirst(r) ==
  /\ pc[r] = "received"
  /\ OrderCreateValid(body[r])
  /\ body[r].items = <<>>
  /\ IF db
     THEN Finish(r, HTTPException(400, <<"Cart is empty">>))
     ELSE Finish(r, HTTPException(500, <<"store">>))
  /\ UNCHANGED <<db, catalog, changes, orders, reads, lookups>>

\* create_order is entered with an empty items list.
RejectEmpty(r) ==
  /\ pc[r] = "received"
  /\ OrderCreateValid(body[r])
  /\ body[r].items = <<>>
  /\ Finish(r, HTTPException(400, <<"Cart is empty">>))
  /\ UNCHANGED <<db, catalog, changes, orders, reads, lookups>>

\* create_order is entered with items: the locals are set up for the loop.
EnterLoop(r) ==
  /\ pc[r] = "received"
  /\ OrderCreateValid(body[r])
  /\ body[r].items # <<>>
  /\ pc' = [pc EXCEPT ![r] = "lookup"]
  /\ idx' = [idx EXCEPT ![r] = 1]
  /\ subtotal' = [subtotal EXCEPT ![r] = 0]
  /\ normalized_items' = [normalized_items EXCEPT ![r] = <<>>]
  /\ UNCHANGED <<db, catalog, changes, orders, body, reads, lookups, response>>

\* A failed lookup that still writes the lines normalized so far.
LookupNone_PartialOrder(r) ==
  /\ pc[r] = "lookup"
  /\ LET it == body[r].items[idx[r]]
     IN /\ \E raised \in BOOLEAN :
             \/ ~db
             \/ it.product_id \notin WellFormedIds
             \/ raised
             \/ FindOne(it.product_id) = <<>>
        /\ Finish(r, HTTPException(400, <<"Invalid product: ", it.product_id>>))
  /\ orders' = IF normalized_items[r] = <<>> THEN orders ELSE Append(orders, OrderDoc(r))
  /\ lookups' = [lookups EXCEPT ![r] = @ + 1]
  /\ UNCHANGED <<db, catalog, changes, reads>>

\* One iteration of the loop whose lookup yields no document: the handle is
\* None, ObjectId() or find_one() raised, or there is no record.
LookupNone(r) ==
  /\ pc[r] = "lookup"
  /\ LET it == body[r].items[idx[r]]
     IN /\ \E raised \in BOOLEAN :
             \/ ~db
             \/ it.product_id \notin WellFormedIds
             \/ raised
             \/ FindOne(it.product_id) = <<>>
        /\ Finish(r, HTTPException(400, <<"Invalid product: ", it.product_id>>))
  /\ lookups' = [lookups EXCEPT ![r] = @ + 1]
  /\ UNCHANGED <<db, catalog, changes, orders, reads>>

\* One iteration of the loop whose lookup returns a document.
LookupFound(r) ==
  /\ pc[r] = "lookup"
  /\ db
  /\ LET it == body[r].items[idx[r]]
     IN /\ it.product_id \in WellFormedIds
        /\ FindOne(it.product_id) # <<>>
        /\ LET prod == FindOne(it.product_id)[1]
           IN /\ subtotal' = [subtotal EXCEPT ![r] = @ + PriceOf(prod) * it.quantity]
              /\ normalized_items' = [normalized_items EXCEPT ![r] = AppendSnapshot(@, Snapshot(it, prod))]
              /\ reads' = [reads EXCEPT ![r] = Append(@, prod)]
  /\ lookups' = [lookups EXCEPT ![r] = @ + 1]
  /\ IF idx[r] = Len(body[r].items)
     THEN pc' = [pc EXCEPT ![r] = "persist"] /\ idx' = idx
     ELSE pc' = pc /\ idx' = [idx EXCEPT ![r] = @ + 1]
  /\ UNCHANGED <<db, catalog, changes, orders, body, response>>

\* OrderSchema(...) raises a validation error: 500, nothing written.
PersistInvalid(r) ==
  /\ pc[r] = "persist"
  /\ ~OrderValid(OrderDoc(r))
  /\ Finish(r, HTTPException(500, <<"validation">>))
  /\ UNCHANGED <<db, catalog, changes, orders, reads, lookups>>

\* create_document raises: 500, nothing written.
PersistRaises(r) ==
  /\ pc[r] = "persist"
  /\ OrderValid(OrderDoc(r))
  /\ Finish(r, HTTPException(500, <<"store">>))
  /\ UNCHANGED <<db, catalog, changes, orders, reads, lookups>>

\* create_document inserts the document and returns its identifier.
create_document(doc) == Append(orders, doc)

PersistCreated(r) ==
  /\ pc[r] = "persist"
  /\ OrderValid(OrderDoc(r))
  /\ orders' = create_document(OrderDoc(r))
  /\ Finish(r, [status |-> 200, detail |-> <<"pending">>,
                order_id |-> Len(orders) + 1, total |-> OrderDoc(r).total])
  /\ UNCHANGED <<db, catalog, changes, reads, lookups>>

\* The catalog is edited outside the order workflow.
SetPrice(p) ==
  /\ changes < MaxChanges
  /\ \E v \in NewPrices :
       /\ v # catalog[p].price
       /\ catalog' = [catalog EXCEPT ![p].price = v]
  /\ changes' = changes + 1
  /\ UNCHANGED <<db, orders, pc, body, locals, reads, lookups, response>>

ClearTitle(p) ==
  /\ changes < MaxChanges
  /\ catalog[p].title # NoneVal
  /\ catalog' = [catalog EXCEPT ![p].title = NoneVal]
  /\ changes' = changes + 1
  /\ UNCHANGED <<db, orders, pc, body, locals, reads, lookups, response>>

Next ==
  \/ \E r \in Requests : Receive(r)
  \/ \E r \in Requests : RejectInvalid(r)
  \/ \E r \in Requests : RejectEmpty(r)
  \/ \E r \in Requests : EnterLoop(r)
  \/ \E r \in Requests : LookupNone(r)
  \/ \E r \in Requests : LookupFound(r)
  \/ \E r \in Requests : PersistInvalid(r)
  \/ \E r \in Requests : PersistRaises(r)
  \/ \E r \in Requests : PersistCreated(r)
  \/ \E p \in Editable : SetPrice(p)
  \/ \E p \in Editable : ClearTitle(p)

Spec == Init /\ [][Next]_vars

\* ---------------------------------------------------------------- claims
\* A product identifier the store cannot resolve: malformed, or without record.
Unresolvable(id) == id \notin WellFormedIds \/ id \notin DOMAIN catalog

HasUnresolvable(items) == \E k \in 1..Len(items) : Unresolvable(items[k].product_id)

FirstUnresolvable(items) ==
  CHOOSE k \in 1..Len(items) :
    /\ Unresolvable(items[k].product_id)
    /\ \A j \in 1..(k - 1) : ~Unresolvable(items[j].product_id)

\* Request r ends in this step.
Ends(r) == pc[r] # "done" /\ pc'[r] = "done"

Created(r) == pc[r] = "done" /\ response[r].status = 200

\* The order document a created request wrote.
OrderOf(r) == orders[response[r].order_id]

RECURSIVE ReadSum(_, _, _)
\* Sum over the first n items of (price of the document read) * quantity.
ReadSum(rd, items, n) ==
  IF n = 0 THEN 0 ELSE ReadSum(rd, items, n - 1) + PriceOf(rd[n]) * items[n].quantity

\* C1: a request whose valid, non-empty cart holds an unresolvable product
\* identifier ends with 400 "Invalid product: <id>" naming the first such
\* identifier, and adds no order.
C1_FirstUnresolvableNamed ==
  [][\A r \in Requests :
       (Ends(r) /\ OrderCreateValid(body[r]) /\ HasUnresolvable(body[r].items))
         => /\ response'[r] =
                 HTTPException(400, <<"Invalid product: ",
                   body[r].items[FirstUnresolvable(body[r].items)].product_id>>)
            /\ orders' = orders]_vars

\* C2: the lines of a created order carry the title, price and image of the
\* catalog documents read during the request, and its subtotal and total are
\* computed from those prices and the requested quantities alone.
C2_SnapshotFromCatalog ==
  \A r \in Requests :
    Created(r) =>
      LET doc == OrderOf(r)
          n   == Len(body[r].items)
          sum == ReadSum(reads[r], body[r].items, n)
      IN /\ Len(doc.items) = Len(reads[r])
         /\ Len(reads[r]) = n
         /\ \A k \in 1..n :
              /\ doc.items[k].title = reads[r][k].title
              /\ doc.items[k].price = PriceOf(reads[r][k])
              /\ doc.items[k].image = reads[r][k].image
         /\ doc.subtotal = Round2(sum)
         /\ doc.total = Round2(sum + ShippingOf(body[r]))
         /\ response[r].total = doc.total

C2_Witness ==
  \E r \in Requests :
    /\ Created(r)
    /\ Len(body[r].items) = 2
    /\ \A k \in 1..2 : body[r].items[k].price # OrderOf(r).items[k].price

\* C3: the total of every persisted order equals its own persisted subtotal
\* plus its shipping, rounded to two places.
C3_TotalFromRoundedSubtotal ==
  \A k \in 1..Len(orders) :
    orders[k].total = Round2(orders[k].subtotal + orders[k].shipping)

\* C4: the order store only grows by one document at its end; a request ends
\* once, either with 200 and exactly one appended order whose identifier it
\* returns, or with an error and the store unchanged; nothing else, a catalog
\* edit included, changes the store.
C4_AppendOnlyTwoOutcomes ==
  [][/\ Len(orders') \in {Len(orders), Len(orders) + 1}
     /\ SubSeq(orders', 1, Len(orders)) = orders
     /\ \A r \in Requests :
          /\ Ends(r) =>
               \/ /\ response'[r].status = 200
                  /\ Len(orders') = Len(orders) + 1
                  /\ response'[r].order_id = Len(orders')
               \/ /\ response'[r].status \in {400, 422, 500}
                  /\ orders' = orders
          /\ pc[r] = "done" => (pc'[r] = "done" /\ response'[r] = response[r])
     /\ orders' # orders => \E r \in Requests : Ends(r) /\ pc[r] = "persist"]_vars

C4_Witness ==
  /\ Len(orders) = 2
  /\ \E r \in Requests : pc[r] = "done" /\ response[r].status = 200 /\ response[r].order_id = 1
  /\ orders[1].items[1].product_id = "p1"
  /\ catalog["p1"].price # <<orders[1].items[1].price>>

\* C5: the subtotal of every persisted order is the sum of price * quantity
\* over its own lines, rounded to two places.
C5_SubtotalOfOwnLines ==
  \A k \in 1..Len(orders) :
    orders[k].subtotal = Round2(LineSum(orders[k].items, Len(orders[k].items)))

\* An order whose two lines of one product carry two prices (the price was
\* edited between the lookups), next to an order of the other request.
C5_Witness ==
  /\ Len(orders) = 2
  /\ \E k \in 1..2 :
       /\ Len(orders[k].items) = 2
       /\ orders[k].items[1].product_id = orders[k].items[2].product_id
       /\ orders[k].items[1].price # orders[k].items[2].price

\* C6: a created order has one line per cart item, in cart order, the k-th
\* line carrying the k-th item's product identifier and quantity.
C6_OneLinePerItem ==
  \A r \in Requests :
    Created(r) =>
      /\ Len(OrderOf(r).items) = Len(body[r].items)
      /\ \A k \in 1..Len(body[r].items) :
           /\ OrderOf(r).items[k].product_id = body[r].items[k].product_id
           /\ OrderOf(r).items[k].quantity = body[r].items[k].quantity

\* A created order of a cart that repeats a product identifier.
C6_Witness ==
  \E r \in Requests :
    /\ Created(r)
    /\ Len(body[r].items) = 2
    /\ body[r].items[1].product_id = body[r].items[2].product_id
    /\ Len(OrderOf(r).items) = 2

\* C7 as claimed: a request whose items all resolved and whose shipping is
\* negative ends Created, the order persisted with that shipping (a raising
\* store write aside).
C7_NegativeShippingAccepted ==
  [][\A r \in Requests :
       (Ends(r) /\ pc[r] = "persist" /\ body[r].shipping < 0
          /\ response'[r].detail # <<"store">>)
         => /\ response'[r].status = 200
            /\ Len(orders') = Len(orders) + 1
            /\ orders'[Len(orders')].shipping = body[r].shipping]_vars

\* C7 amended: a request with negative shipping is never Created and leaves
\* the order store unchanged; when all its items resolved it ends with 500
\* and the validation error of the Order schema.
C7_NegativeShippingRejected ==
  [][\A r \in Requests :
       (Ends(r) /\ body[r].shipping < 0)
         => /\ response'[r].status # 200
            /\ orders' = orders
            /\ pc[r] = "persist" => response'[r] = HTTPException(500, <<"validation">>)]_vars

C7_Witness ==
  \E r \in Requests :
    /\ pc[r] = "done"
    /\ body[r].shipping < 0
    /\ body[r].items # <<>>
    /\ Len(reads[r]) = Len(body[r].items)
    /\ \A k \in 1..Len(reads[r]) : reads[r][k].title # NoneVal /\ PriceOf(reads[r][k]) >= 0
    /\ response[r].status = 500

\* C8: a 400 is returned only for an empty cart or for a product identifier
\* that is malformed or has no record; a failing store call never yields it.
C8_Only400ForClientErrors ==
  \A r \in Requests :
    response[r].status = 400 =>
      \/ response[r].detail = <<"Cart is empty">>
      \/ /\ Len(response[r].detail) = 2
         /\ Unresolvable(response[r].detail[2])

\* C9: a request with an empty items list ends with 400 "Cart is empty"
\* without any product lookup and without a change of the order store,
\* whether or not the store handle is there.
C9_EmptyCartBeforeLookup ==
  [][\A r \in Requests :
       (pc[r] = "received" /\ body[r].items = <<>> /\ pc'[r] # pc[r])
         => /\ pc'[r] = "done"
            /\ response'[r] = HTTPException(400, <<"Cart is empty">>)
            /\ lookups'[r] = 0
            /\ orders' = orders]_vars

C9_Witness ==
  \E r \in Requests :
    /\ ~db
    /\ pc[r] = "done"
    /\ body[r].items = <<>>
    /\ response[r].status = 400
    /\ lookups[r] = 0

\* C10: every order in the store has at least one line, quantities >= 1,
\* unit prices >= 0, subtotal, shipping and total >= 0, and status "pending".
C10_OrdersWellFormed ==
  \A k \in 1..Len(orders) :
    /\ orders[k].items # <<>>
    /\ \A j \in 1..Len(orders[k].items) :
         /\ orders[k].items[j].quantity >= 1
         /\ orders[k].items[j].price >= 0
    /\ orders[k].subtotal >= 0
    /\ orders[k].shipping >= 0
    /\ orders[k].total >= 0
    /\ orders[k].status = "pending"

\* An order is in the store, the catalog holds a record with a negative
\* price or without title, and a request that read it has ended.
C10_Witness ==
  /\ Len(orders) >= 1
  /\ \E r \in Requests :
       /\ pc[r] = "done"
       /\ \E k \in 1..Len(reads[r]) :
            reads[r][k].title = NoneVal \/ PriceOf(reads[r][k]) < 0

====
